---- MODULE Spec2Model ----
(***************************************************************************)
(* A model of luka598/data: the adaptive substitution compressor of        *)
(* src/data/compress.py over the typed binary layer of src/data/bytes.py.  *)
(*                                                                         *)
(* A bytes object is a sequence of naturals in 0..255.  Python indices are *)
(* 0-based and kept that way; Slice does the conversion to SubSeq.         *)
(***************************************************************************)
EXTENDS Integers, Sequences, FiniteSets, TLC

VARIABLES buffer, table, tableInverted, chan, op, calls, pc

vars == <<buffer, table, tableInverted, chan, op, calls, pc>>

(***************************************************************************)
(* Python sequence primitives                                              *)
(***************************************************************************)

\* The set of values of a sequence.
Range(s) == {s[k] : k \in DOMAIN s}

\* An index of a slice as Python normalises it: a negative index counts from
\* the end, and everything is clamped to 0..len.
NormIndex(k, len) ==
    IF k < 0 THEN (IF k + len < 0 THEN 0 ELSE k + len)
    ELSE (IF k > len THEN len ELSE k)

\* s[k], for an index in range: a negative index counts from the end.
PyIndex(s, k) == s[(IF k < 0 THEN k + Len(s) ELSE k) + 1]

\* s[a:b]
Slice(s, a, b) ==
    LET lo == NormIndex(a, Len(s))
        hi == NormIndex(b, Len(s))
    IN  IF lo < hi THEN SubSeq(s, lo + 1, hi) ELSE <<>>

\* s[a:]
SliceFrom(s, a) == Slice(s, a, Len(s))

\* b"".join(parts)
RECURSIVE Join(_)
Join(parts) == IF parts = <<>> THEN <<>> ELSE Head(parts) \o Join(Tail(parts))

(***************************************************************************)
(* compress.py, module level                                               *)
(***************************************************************************)

NULLB == <<0>>

remove(s, begin, length) == Slice(s, 0, begin) \o SliceFrom(s, begin + length)

insert(s1, s2, begin) == Slice(s1, 0, begin) \o s2 \o SliceFrom(s1, begin)

\* find without its start: the search always begins at index 0.
findFromZero(s1, s2, start) ==
    LET hits == {j \in 0 .. (Len(s1) - Len(s2)) :
                    SubSeq(s1, j + 1, j + Len(s2)) = s2}
    IN  IF hits = {} THEN -1
        ELSE CHOOSE j \in hits : \A k \in hits : j <= k

\* bytes.find: the lowest index >= start at which s2 occurs in s1, else -1.
find(s1, s2, start) ==
    LET lo   == NormIndex(start, Len(s1))
        hits == {j \in lo .. (Len(s1) - Len(s2)) :
                    SubSeq(s1, j + 1, j + Len(s2)) = s2}
    IN  IF hits = {} THEN -1
        ELSE CHOOSE j \in hits : \A k \in hits : j <= k

KEY_SIZE == 1

VALUE_SIZE == 3

BUFFER_SIZE == 1000

\* The slice bound of occurrences[:255] in createTable.
TABLE_LIMIT == 255

(***************************************************************************)
(* bytes.py: Buffer, Int (uint32), Sequence, Struct                        *)
(***************************************************************************)

\* Buffer.read(n): the value read and the buffer left.
BufferRead(buf, n) == [v |-> Slice(buf, 0, n), buffer |-> SliceFrom(buf, n)]

uint32_BITS == 32

\* int.to_bytes(n, byteorder="big", signed=False)
IntToBytes(x, bits) ==
    LET n == bits \div 8
    IN  [k \in 1 .. n |-> (x \div (256 ^ (n - k))) % 256]

\* int.from_bytes(bs, byteorder="big", signed=False), of however many bytes
\* the read returned.
RECURSIVE PyIntFromBytes(_)
PyIntFromBytes(bs) ==
    IF bs = <<>> THEN 0
    ELSE 256 * PyIntFromBytes(SubSeq(bs, 1, Len(bs) - 1)) + bs[Len(bs)]

\* Int.fromBytes on a Buffer: the integer and the buffer left.
IntFromBytes(buf, bits) ==
    LET r == BufferRead(buf, bits \div 8)
    IN  [v |-> PyIntFromBytes(r.v), buffer |-> r.buffer]

\* Sequence.toBytes
SequenceToBytes(x) == IntToBytes(Len(x), uint32_BITS) \o x

\* Sequence.fromBytes on a Buffer: the sequence and the buffer left.
SequenceFromBytes(buf) ==
    LET length == IntFromBytes(buf, uint32_BITS)
    IN  BufferRead(length.buffer, length.v)

\* compressStruct.toBytes([b, compressed])
compressStruct_toBytes(x) == SequenceToBytes(x[1]) \o SequenceToBytes(x[2])

\* compressStruct.fromBytes(bStruct): the tuple of the two sequences.
compressStruct_fromBytes(x) ==
    LET first  == SequenceFromBytes(x)
        second == SequenceFromBytes(first.buffer)
    IN  <<first.v, second.v>>

(***************************************************************************)
(* Compress.createTable / generateTable / addToBuffer                      *)
(***************************************************************************)

\* A function on 1..n as the tuple of its values.
AsSeq(f, n) == IF n <= 0 THEN <<>> ELSE SubSeq(f, 1, n)

\* list(occurrences.items()) after the counting loop: the distinct windows
\* of VALUE_SIZE bytes with their counts, in the dict's insertion order,
\* which is the order of first occurrence.  The window at Python index i is
\* win[i + 1].
Occurrences(b) ==
    LET n      == Len(b) - VALUE_SIZE + 1
        win    == AsSeq([i \in 1 .. n |-> Slice(b, i - 1, i - 1 + VALUE_SIZE)], n)
        items  == {<<g,
                     Cardinality({i \in 1 .. n : win[i] = g}),
                     CHOOSE i \in 1 .. n :
                         win[i] = g /\ \A j \in 1 .. i - 1 : win[j] # g>> :
                   g \in Range(win)}
        placed == {<<1 + Cardinality({e \in items : e[3] < item[3]}), item>> :
                   item \in items}
    IN  AsSeq([k \in 1 .. Cardinality(items) |->
                 LET at == CHOOSE pl \in placed : pl[1] = k
                 IN  <<at[2][1], at[2][2]>>],
              Cardinality(items))

\* occurrences.sort(key=lambda x: x[1], reverse=True): list.sort is stable,
\* also with reverse=True, so entries of equal count keep their order.
SortByCountDesc(occ) ==
    LET n      == Len(occ)
        placed == {<<1 + Cardinality({k \in 1 .. n : occ[k][2] > occ[j][2]})
                       + Cardinality({k \in 1 .. j - 1 : occ[k][2] = occ[j][2]}),
                     occ[j]>> :
                   j \in 1 .. n}
    IN  AsSeq([d \in 1 .. n |-> (CHOOSE pl \in placed : pl[1] = d)[2]], n)

\* range(0, len(occurrences)): the loop starts at the reserved code.
TableCodesFromZero(occurrences) == 0 .. (Len(occurrences) - 1)

\* range(1, len(occurrences) + 1): every kept window gets a code.
TableCodesThroughLast(occurrences) == 1 .. Len(occurrences)

\* The codes the loop over range(1, len(occurrences)) assigns.
TableCodes(occurrences) == 1 .. (Len(occurrences) - 1)

\* t starts as {NULLB: NULLB}; the loop then sets t[i] = occurrences[i - 1][0].
createTable(b) ==
    LET occurrences == Slice(SortByCountDesc(Occurrences(b)), 0, TABLE_LIMIT)
        codes       == TableCodes(occurrences)
    IN  [key \in {NULLB} \cup {IntToBytes(i, 8) : i \in codes} |->
            IF key[1] \in codes
            THEN PyIndex(occurrences, key[1] - 1)[1]
            ELSE NULLB]

\* {v: k for k, v in self.table.items()}: of two keys with one value the
\* later inserted one stays, and keys are inserted in ascending code order.
Invert(t) ==
    [v \in {t[k] : k \in DOMAIN t} |->
        CHOOSE k \in DOMAIN t :
            t[k] = v /\ \A k2 \in DOMAIN t : t[k2] = v => k2[1] <= k[1]]

\* A sliding window: the last BUFFER_SIZE bytes are kept, not the first.
addToBufferSliding(buf, b) ==
    SliceFrom(buf \o b,
              IF Len(buf \o b) > BUFFER_SIZE THEN Len(buf \o b) - BUFFER_SIZE ELSE 0)

\* self.buffer += b; self.buffer = self.buffer[: self.BUFFER_SIZE]
addToBuffer(buf, b) == Slice(buf \o b, 0, BUFFER_SIZE)

(***************************************************************************)
(* Compress.compress / Compress.decompress                                 *)
(***************************************************************************)

\* The loop with the bound i + VALUE_SIZE <= len(b): the last window is
\* scanned too.
RECURSIVE compressLoopInclusive(_, _, _, _, _)
compressLoopInclusive(b, compressed, i, subs, tinv) ==
    IF i + VALUE_SIZE <= Len(b)
    THEN LET bytes == Slice(b, i, i + VALUE_SIZE)
             byte  == Slice(b, i, i + 1)
         IN  IF bytes \in DOMAIN tinv
             THEN compressLoopInclusive(insert(remove(b, i, VALUE_SIZE), NULLB, i),
                                        Append(compressed, tinv[bytes]),
                                        i + KEY_SIZE, subs \cup {i}, tinv)
             ELSE IF byte = NULLB
             THEN compressLoopInclusive(b, Append(compressed, tinv[byte]),
                                        i + KEY_SIZE, subs, tinv)
             ELSE compressLoopInclusive(b, compressed, i + KEY_SIZE, subs, tinv)
    ELSE [b |-> b, compressed |-> compressed, i |-> i, subs |-> subs]

\* The loop without its elif branch: a literal 0x00 gets no code.
RECURSIVE compressLoopNoEscape(_, _, _, _, _)
compressLoopNoEscape(b, compressed, i, subs, tinv) ==
    IF i + VALUE_SIZE < Len(b)
    THEN LET bytes == Slice(b, i, i + VALUE_SIZE)
         IN  IF bytes \in DOMAIN tinv
             THEN compressLoopNoEscape(insert(remove(b, i, VALUE_SIZE), NULLB, i),
                                       Append(compressed, tinv[bytes]),
                                       i + KEY_SIZE, subs \cup {i}, tinv)
             ELSE compressLoopNoEscape(b, compressed, i + KEY_SIZE, subs, tinv)
    ELSE [b |-> b, compressed |-> compressed, i |-> i, subs |-> subs]

\* The loop of compress.  b is the payload as rewritten so far, compressed
\* the list of codes, i the cursor.  subs is a history variable, not in the
\* code: the cursor positions at which a window was substituted.
RECURSIVE compressLoop(_, _, _, _, _)
compressLoop(b, compressed, i, subs, tinv) ==
    IF i + VALUE_SIZE < Len(b)
    THEN LET bytes == Slice(b, i, i + VALUE_SIZE)
             byte  == Slice(b, i, i + 1)
         IN  IF bytes \in DOMAIN tinv
             THEN compressLoop(insert(remove(b, i, VALUE_SIZE), NULLB, i),
                               Append(compressed, tinv[bytes]),
                               i + KEY_SIZE, subs \cup {i}, tinv)
             ELSE IF byte = NULLB
             THEN compressLoop(b, Append(compressed, tinv[byte]),
                               i + KEY_SIZE, subs, tinv)
             ELSE compressLoop(b, compressed, i + KEY_SIZE, subs, tinv)
    ELSE [b |-> b, compressed |-> compressed, i |-> i, subs |-> subs]

\* compress(b) without its addToBuffer: the two streams, the packet
\* returned, and the loop's final cursor and substitution positions.
compress(b, tinv) ==
    LET r == compressLoop(b, <<>>, 0, {}, tinv)
    IN  [lit   |-> r.b,
         codes |-> Join(r.compressed),
         ret   |-> compressStruct_toBytes(<<r.b, Join(r.compressed)>>),
         i     |-> r.i,
         subs  |-> r.subs]

\* The list comprehension of decompress: compressed cut in KEY_SIZE pieces.
SplitCodes(compressed) ==
    [k \in 1 .. ((Len(compressed) + KEY_SIZE - 1) \div KEY_SIZE) |->
        Slice(compressed, (k - 1) * KEY_SIZE, k * KEY_SIZE)]

\* The loop of decompress.  self.table[code] raises KeyError for a code the
\* table does not hold; nothing else in the loop raises.
RECURSIVE decompressLoop(_, _, _, _)
decompressLoop(b, compressed, i, t) ==
    IF Len(compressed) > 0
    THEN IF Head(compressed) \notin DOMAIN t
         THEN [err |-> "KeyError", b |-> b]
         ELSE LET val == t[Head(compressed)]
                  at  == find(b, NULLB, i)
              IN  decompressLoop(insert(remove(b, at, 1), val, at),
                                 Tail(compressed), at + Len(val), t)
    ELSE [err |-> "", b |-> b]

\* decompress(bStruct) without its addToBuffer: the unpacked streams, and
\* the payload returned or the exception raised.
decompress(bStruct, t) ==
    LET unpacked == compressStruct_fromBytes(bStruct)
        r        == decompressLoop(unpacked[1], SplitCodes(unpacked[2]), 0, t)
    IN  [lit   |-> unpacked[1],
         codes |-> unpacked[2],
         err   |-> r.err,
         ret   |-> IF r.err = "" THEN r.b ELSE <<>>]

(***************************************************************************)
(* State.  buffer, table and tableInverted are the fields of each Compress *)
(* instance.  chan holds the packets produced and not yet consumed, each   *)
(* with the payload it was made from.  op records the last call: its       *)
(* argument, what it returned or raised, and the two streams it handled.   *)
(* calls[c] lists, in call order, the payloads given to c.compress and     *)
(* returned by c.decompress.  pc is the position of the self-test driver.  *)
(***************************************************************************)

Instances == {"E", "D"}

NoOp ==
    [name |-> "new", c |-> "", arg |-> <<>>, ret |-> <<>>, err |-> "",
     lit |-> <<>>, codes |-> <<>>, i |-> 0, subs |-> {}]

\* Compress.__init__ for every instance: an empty buffer, then generateTable.
Init ==
    /\ buffer = [c \in Instances |-> <<>>]
    /\ table = [c \in Instances |-> createTable(<<>>)]
    /\ tableInverted = [c \in Instances |-> Invert(createTable(<<>>))]
    /\ chan = <<>>
    /\ op = NoOp
    /\ calls = [c \in Instances |-> <<>>]
    /\ pc = "new"

\* c.generateTable()
GenerateTable(c) ==
    /\ table' = [table EXCEPT ![c] = createTable(buffer[c])]
    /\ tableInverted' = [tableInverted EXCEPT ![c] = Invert(table'[c])]
    /\ op' = [NoOp EXCEPT !.name = "generateTable", !.c = c]
    /\ UNCHANGED <<buffer, calls>>

\* compress that also rebuilds the table from the buffer it just extended.
CompressRebuilding(c, b) ==
    LET r == compress(b, tableInverted[c])
    IN  /\ buffer' = [buffer EXCEPT ![c] = addToBuffer(@, b)]
        /\ op' = [name |-> "compress", c |-> c, arg |-> b, ret |-> r.ret,
                  err |-> "", lit |-> r.lit, codes |-> r.codes,
                  i |-> r.i, subs |-> r.subs]
        /\ calls' = [calls EXCEPT ![c] = Append(@, b)]
        /\ table' = [table EXCEPT ![c] = createTable(buffer'[c])]
        /\ tableInverted' = [tableInverted EXCEPT ![c] = Invert(table'[c])]

\* c.compress(b)
Compress(c, b) ==
    LET r == compress(b, tableInverted[c])
    IN  /\ buffer' = [buffer EXCEPT ![c] = addToBuffer(@, b)]
        /\ op' = [name |-> "compress", c |-> c, arg |-> b, ret |-> r.ret,
                  err |-> "", lit |-> r.lit, codes |-> r.codes,
                  i |-> r.i, subs |-> r.subs]
        /\ calls' = [calls EXCEPT ![c] = Append(@, b)]
        /\ UNCHANGED <<table, tableInverted>>

\* decompress that appends the literal stream it received to the history,
\* not the payload it reconstructed.
DecompressLiteralToHistory(c, bStruct) ==
    LET r == decompress(bStruct, table[c])
    IN  /\ buffer' = IF r.err = ""
                     THEN [buffer EXCEPT ![c] = addToBuffer(@, r.lit)]
                     ELSE buffer
        /\ op' = [name |-> "decompress", c |-> c, arg |-> bStruct,
                  ret |-> r.ret, err |-> r.err, lit |-> r.lit,
                  codes |-> r.codes, i |-> 0, subs |-> {}]
        /\ calls' = IF r.err = ""
                    THEN [calls EXCEPT ![c] = Append(@, r.ret)]
                    ELSE calls
        /\ UNCHANGED <<table, tableInverted>>

\* c.decompress(bStruct): an exception leaves the instance as it was.
Decompress(c, bStruct) ==
    LET r == decompress(bStruct, table[c])
    IN  /\ buffer' = IF r.err = ""
                     THEN [buffer EXCEPT ![c] = addToBuffer(@, r.ret)]
                     ELSE buffer
        /\ op' = [name |-> "decompress", c |-> c, arg |-> bStruct,
                  ret |-> r.ret, err |-> r.err, lit |-> r.lit,
                  codes |-> r.codes, i |-> 0, subs |-> {}]
        /\ calls' = IF r.err = ""
                    THEN [calls EXCEPT ![c] = Append(@, r.ret)]
                    ELSE calls
        /\ UNCHANGED <<table, tableInverted>>

\* A packet in flight, with the payload it encodes.
Packet(pkt, payload) == [kind |-> "packet", pkt |-> pkt, payload |-> payload]

\* The agreed point at which the receiving side rebuilds its table.
RebuildMark == [kind |-> "rebuild", pkt |-> <<>>, payload |-> <<>>]

(***************************************************************************)
(* Inputs                                                                  *)
(***************************************************************************)

\* Every sequence over S of length at most n.
SeqsUpTo(S, n) == UNION {[1 .. k -> S] : k \in 0 .. n}

\* Payload bytes: the placeholder byte 0x00 and an ordinary byte.
Alphabet == {0, 1}

MaxLen == 4

\* The payloads given to compress: the empty one, and every payload of
\* MaxLen bytes.
Payloads == {<<>>} \cup [1 .. MaxLen -> Alphabet]

\* Well-framed packets whose streams need not be in sync, as <<literal
\* stream, code stream>>.
CraftedStreams ==
    {<< <<>>, <<>> >>,          \* empty
     << <<1>>, <<0>> >>,        \* a code and no placeholder
     << <<1, 1>>, <<1>> >>,     \* an n-gram code and no placeholder
     << <<0>>, <<1>> >>,        \* one placeholder, one n-gram code
     << <<0>>, <<0, 0>> >>,     \* more codes than placeholders
     << <<0, 1, 0>>, <<1>> >>,  \* more placeholders than codes
     << <<0, 0>>, <<1, 2>> >>}  \* two n-gram codes

Crafted == {compressStruct_toBytes(x) : x \in CraftedStreams}

MaxDeclared == 10

\* Ill-framed input: a length prefix declaring MaxDeclared bytes with fewer
\* bytes after it, in the first field or in the second.
Underrun ==
    {IntToBytes(MaxDeclared, uint32_BITS) \o rest :
        rest \in {<<>>, <<1, 1, 1, 1>>}}
    \cup {SequenceToBytes(<<0>>) \o IntToBytes(MaxDeclared, uint32_BITS) \o <<0>>}

MaxCalls == 2

(***************************************************************************)
(* Spec: one instance, any calls in any order on any input.                *)
(***************************************************************************)

CallCompress ==
    /\ Len(calls["E"]) < MaxCalls
    /\ \E b \in Payloads :
          /\ Compress("E", b)
          /\ chan' = <<Packet(op'.ret, b)>>
    /\ UNCHANGED pc

CallDecompress ==
    /\ Len(calls["E"]) < MaxCalls
    /\ \E bStruct \in Crafted \cup Underrun \cup {m.pkt : m \in Range(chan)} :
          Decompress("E", bStruct)
    /\ UNCHANGED <<chan, pc>>

CallGenerateTable ==
    /\ GenerateTable("E")
    /\ UNCHANGED <<chan, pc>>

Next == CallCompress \/ CallDecompress \/ CallGenerateTable

Spec == Init /\ [][Next]_vars

(***************************************************************************)
(* Claims checked under Spec                                               *)
(***************************************************************************)

\* The table of c holds every code of the code stream cs, and the literal
\* stream lit holds no 0x00 at all: the first code finds no placeholder.
NoPlaceholderFor(lit, cs, c) ==
    /\ cs # <<>>
    /\ \A k \in DOMAIN cs : <<cs[k]>> \in DOMAIN table[c]
    /\ 0 \notin Range(lit)

\* C2: a decompress whose code stream holds a code for which no 0x00 byte
\* remains in the literal stream fails with a decode-integrity error,
\* returns no payload and appends nothing to the history buffer.
C2_DecodeIntegrity ==
    [][(/\ op'.name = "decompress"
        /\ NoPlaceholderFor(op'.lit, op'.codes, op'.c))
       => (/\ op'.err = "DecodeIntegrityError"
           /\ op'.ret = <<>>
           /\ buffer' = buffer)]_vars

\* The number a 4-byte big-endian length prefix declares.
Declared(prefix) ==
    prefix[1] * 16777216 + prefix[2] * 65536 + prefix[3] * 256 + prefix[4]

\* The first length prefix of x is complete and declares more bytes than
\* remain after it.
FirstFieldUnderrun(x) ==
    /\ Len(x) >= 4
    /\ Declared(SubSeq(x, 1, 4)) > Len(x) - 4

\* C3: unpacking input with fewer bytes left than a length prefix declares
\* fails with a buffer-underrun error; it never returns a sequence shorter
\* than the declared length.
C3_EnvelopeUnderrun ==
    (op.name = "decompress" /\ FirstFieldUnderrun(op.arg))
    => (/\ op.err = "BufferUnderrunError"
        /\ op.ret = <<>>
        /\ Len(op.lit) \notin 1 .. Declared(SubSeq(op.arg, 1, 4)) - 1)

\* C8: in every state of an instance, table[0x00] is the single byte 0x00,
\* tableInverted[0x00] is code 0x00, and neither direction relates code
\* 0x00 to an n-gram.
C8_ReservedCode ==
    \A c \in Instances :
        /\ NULLB \in DOMAIN table[c]
        /\ table[c][NULLB] = <<0>>
        /\ <<0>> \in DOMAIN tableInverted[c]
        /\ tableInverted[c][<<0>>] = NULLB
        /\ \A g \in DOMAIN tableInverted[c] :
              Len(g) = VALUE_SIZE => tableInverted[c][g] # NULLB

\* A table rebuilt from a history whose windows hold 0x00 bytes, with at
\* least one n-gram code, and a successful decompress after it.
C8_Witness ==
    /\ op.name = "decompress"
    /\ op.err = ""
    /\ <<0, 0, 0>> \in DOMAIN tableInverted["E"]
    /\ Cardinality(DOMAIN table["E"]) >= 2

\* C9: compress and decompress leave table and tableInverted as they are;
\* the tables change only in generateTable, which replaces both by the
\* table built from the current history buffer and leaves the buffer alone.
C9_ExplicitRebuildOnly ==
    [][/\ op'.name \in {"compress", "decompress"}
          => (table' = table /\ tableInverted' = tableInverted)
       /\ (table' # table \/ tableInverted' # tableInverted)
          => op'.name = "generateTable"
       /\ op'.name = "generateTable"
          => (/\ buffer' = buffer
              /\ table'[op'.c] = createTable(buffer[op'.c])
              /\ tableInverted'[op'.c] = Invert(table'[op'.c])
              /\ \A c \in Instances \ {op'.c} :
                    table'[c] = table[c] /\ tableInverted'[c] = tableInverted[c])]_vars

\* A compress that substituted a window and a history longer than the one
\* the table was built from: a rebuild here would change the table.
C9_Witness ==
    /\ op.name = "compress"
    /\ op.subs # {}
    /\ table["E"] # createTable(buffer["E"])

(***************************************************************************)
(* SpecSelfTest: the driver under __main__, for any two payloads.          *)
(*   c = Compress(); c.compress(b); c.generateTable();                     *)
(*   comp = c.compress(b); assert c.decompress(comp) == b                  *)
(* The history is seeded by a first compress, or by traffic received.      *)
(***************************************************************************)

MaxSeedLen == 5

MaxTestLen == 7

RampLen == 500

\* A long history with more than TABLE_LIMIT distinct windows.
Ramp == [k \in 1 .. RampLen |-> k % 256]

Seeds == SeqsUpTo(Alphabet, MaxSeedLen)

TestPayloads == SeqsUpTo(Alphabet, MaxTestLen) \cup {SubSeq(Ramp, 1, MaxTestLen + 1)}

SelfTestSeed ==
    /\ pc = "new"
    /\ \E b \in Seeds : Compress("E", b)
    /\ pc' = "seeded"
    /\ UNCHANGED chan

SelfTestSeedReceived ==
    /\ pc = "new"
    /\ Decompress("E", compressStruct_toBytes(<<Ramp, <<>>>>))
    /\ pc' = "seeded"
    /\ UNCHANGED chan

SelfTestGenerateTable ==
    /\ pc = "seeded"
    /\ GenerateTable("E")
    /\ pc' = "built"
    /\ UNCHANGED chan

SelfTestCompress ==
    /\ pc = "built"
    /\ \E b \in TestPayloads :
          /\ Compress("E", b)
          /\ chan' = <<Packet(op'.ret, b)>>
    /\ pc' = "compressed"

SelfTestDecompress ==
    /\ pc = "compressed"
    /\ Decompress("E", chan[1].pkt)
    /\ pc' = "done"
    /\ UNCHANGED chan

NextSelfTest ==
    \/ SelfTestSeed
    \/ SelfTestSeedReceived
    \/ SelfTestGenerateTable
    \/ SelfTestCompress
    \/ SelfTestDecompress

SpecSelfTest == Init /\ [][NextSelfTest]_vars

(***************************************************************************)
(* Claims checked under SpecSelfTest                                       *)
(***************************************************************************)

\* C1: with the table unchanged in between, decompress of the packet that
\* compress made of a payload of at least VALUE_SIZE bytes returns exactly
\* that payload.
C1_RoundTrip ==
    (pc = "done" /\ Len(chan[1].payload) >= VALUE_SIZE)
    => (/\ op.name = "decompress"
        /\ op.arg = chan[1].pkt
        /\ op.err = ""
        /\ op.ret = chan[1].payload)

\* A round trip through a packet with a substituted window, a literal 0x00
\* and an n-gram that itself holds 0x00.
C1_Witness ==
    /\ pc = "done"
    /\ Len(chan[1].payload) >= VALUE_SIZE
    /\ op.ret = chan[1].payload
    /\ \E j, k \in DOMAIN op.codes :
          /\ op.codes[j] = 0
          /\ op.codes[k] # 0
          /\ 0 \in Range(table["E"][<<op.codes[k]>>])

\* The 0-based offsets of the payload that the substitutions at the cursor
\* positions subs replaced: each earlier substitution shortened the payload
\* by VALUE_SIZE - 1 bytes.
SubstitutedOffsets(subs) ==
    UNION {LET start == i + (VALUE_SIZE - 1) * Cardinality({j \in subs : j < i})
           IN  start .. (start + VALUE_SIZE - 1) : i \in subs}

\* The last k elements of s.
Suffix(s, k) == SubSeq(s, Len(s) - k + 1, Len(s))

\* compress leaves the last k bytes of its payload unsubstituted and at the
\* end of the literal stream, where k is at most n and at most the payload's
\* length.
TailLiteral(n) ==
    op.name = "compress"
    => LET len == Len(op.arg)
           k   == IF len < n THEN len ELSE n
       IN  /\ SubstitutedOffsets(op.subs) \cap ((len - k) .. (len - 1)) = {}
           /\ Len(op.lit) >= k
           /\ Suffix(op.lit, k) = Suffix(op.arg, k)

\* C4, as claimed: compress never substitutes any of the last
\* min(VALUE_SIZE, len(payload)) bytes of the payload; the literal stream
\* ends with those bytes unchanged.
C4_TailLiteralAsClaimed == TailLiteral(VALUE_SIZE)

\* C4, amended: compress never substitutes the last byte of the payload and
\* the literal stream ends with it; a payload of at most VALUE_SIZE bytes
\* is not substituted at all.
C4_TailLiteral ==
    /\ TailLiteral(1)
    /\ (op.name = "compress" /\ Len(op.arg) <= VALUE_SIZE)
       => (op.subs = {} /\ op.lit = op.arg)

\* A substitution that replaced the two bytes before the last one.
C4_Witness ==
    /\ op.name = "compress"
    /\ {Len(op.arg) - 3, Len(op.arg) - 2} \subseteq SubstitutedOffsets(op.subs)
    /\ Suffix(op.lit, 1) = Suffix(op.arg, 1)

\* The distinct windows of VALUE_SIZE bytes of h, each with its number of
\* occurrences and the 1-based position of its first occurrence.
WindowStats(h) ==
    LET n   == Len(h) - VALUE_SIZE + 1
        win == AsSeq([i \in 1 .. n |-> SubSeq(h, i, i + VALUE_SIZE - 1)], n)
    IN  {<<w,
           Cardinality({i \in 1 .. n : win[i] = w}),
           CHOOSE i \in 1 .. n : win[i] = w /\ \A j \in 1 .. i - 1 : win[j] # w>> :
         w \in Range(win)}

\* The windows ranked ahead of window x: those occurring more often, and
\* those occurring as often and first seen earlier.
Ahead(x, stats) ==
    {y \in stats : y[2] > x[2] \/ (y[2] = x[2] /\ y[3] < x[3])}

\* C7: createTable(h) gives an n-gram to exactly the codes 1..min(255, D)-1,
\* D the number of distinct windows of h, and code k maps to the k-th window
\* by descending count, ties by first occurrence; no other non-zero code is
\* present, so the lowest-ranked kept window has no code.
C7_TableRanking ==
    op.name = "generateTable"
    => LET stats  == WindowStats(buffer[op.c])
           D      == Cardinality(stats)
           kept   == IF D < 255 THEN D ELSE 255
           ranked == {<<Cardinality(Ahead(x, stats)) + 1, x[1]>> : x \in stats}
           t      == table[op.c]
       IN  /\ DOMAIN t \ {<<0>>} = {<<k>> : k \in 1 .. kept - 1}
           /\ \A r \in ranked : r[1] <= kept - 1 => t[<<r[1]>>] = r[2]
           /\ \A r \in ranked : r[1] >= kept => r[2] \notin Range(t)

\* A table built from a history with more than 255 distinct windows, of
\* unequal counts: codes 1..254 are assigned.
C7_Witness ==
    /\ op.name = "generateTable"
    /\ Cardinality(WindowStats(buffer["E"])) > 255
    /\ \E x, y \in WindowStats(buffer["E"]) : x[2] # y[2]
    /\ <<254>> \in DOMAIN table["E"]

\* The cursor positions compress scanned at which the literal stream holds
\* 0x00: the placeholders.
Placeholders == {j \in 0 .. op.i - 1 : op.lit[j + 1] = 0}

\* C10: the code stream of a packet holds exactly one code per placeholder
\* of its literal stream, in the same order: the code of a substituted
\* window is tableInverted[window], that of a literal 0x00 is 0x00; so there
\* are never more codes than 0x00 bytes in the literal stream.
C10_CodePerPlaceholder ==
    op.name = "compress"
    => /\ Len(op.codes) = Cardinality(Placeholders)
       /\ op.subs \subseteq Placeholders
       /\ \A j \in Placeholders :
             LET k    == 1 + Cardinality({j2 \in Placeholders : j2 < j})
                 orig == j + (VALUE_SIZE - 1) * Cardinality({s \in op.subs : s < j})
                 gram == SubSeq(op.arg, orig + 1, orig + VALUE_SIZE)
             IN  IF j \in op.subs
                 THEN /\ gram \in DOMAIN tableInverted[op.c]
                      /\ <<op.codes[k]>> = tableInverted[op.c][gram]
                 ELSE /\ op.arg[orig + 1] = 0
                      /\ op.codes[k] = 0
       /\ Len(op.codes) <= Cardinality({j \in DOMAIN op.lit : op.lit[j] = 0})

\* A packet with a literal 0x00 before a substituted window, and a 0x00
\* past the scanned positions that has no code.
C10_Witness ==
    /\ op.name = "compress"
    /\ \E j, k \in Placeholders : j < k /\ j \notin op.subs /\ k \in op.subs
    /\ Len(op.codes) < Cardinality({j \in DOMAIN op.lit : op.lit[j] = 0})

(***************************************************************************)
(* SpecHistory: one instance fed short payloads and long received traffic, *)
(* enough to fill the history buffer.                                      *)
(***************************************************************************)

MaxHistLen == 1

MaxHistCalls == 3

FillerLen == 998

\* A long literal stream without 0x00: "abc" repeated.
Filler == [k \in 1 .. FillerLen |-> 1 + (k % 3)]

\* Received packets: the long one, and a short one whose code expands to
\* an n-gram once the table holds one.
HistPackets ==
    {compressStruct_toBytes(<<Filler, <<>>>>),
     compressStruct_toBytes(<< <<0>>, <<1>> >>)}

HistCompress ==
    /\ Len(calls["E"]) < MaxHistCalls
    /\ \E b \in SeqsUpTo(Alphabet, MaxHistLen) :
          /\ Compress("E", b)
          /\ chan' = <<Packet(op'.ret, b)>>
    /\ UNCHANGED pc

HistDecompress ==
    /\ Len(calls["E"]) < MaxHistCalls
    /\ \E bStruct \in HistPackets \cup {m.pkt : m \in Range(chan)} :
          Decompress("E", bStruct)
    /\ UNCHANGED <<chan, pc>>

HistGenerateTable ==
    /\ GenerateTable("E")
    /\ UNCHANGED <<chan, pc>>

NextHistory == HistCompress \/ HistDecompress \/ HistGenerateTable

SpecHistory == Init /\ [][NextHistory]_vars

\* C5: the history buffer is the first min(BUFFER_SIZE, total) bytes of the
\* concatenation, in call order, of every payload given to compress and
\* returned by decompress; it never exceeds BUFFER_SIZE, and once it holds
\* BUFFER_SIZE bytes no later call changes it.
C5_HistoryCapacity ==
    /\ [](LET all == Join(calls["E"])
              n   == IF Len(all) < BUFFER_SIZE THEN Len(all) ELSE BUFFER_SIZE
          IN  /\ buffer["E"] = SubSeq(all, 1, n)
              /\ Len(buffer["E"]) <= BUFFER_SIZE)
    /\ [][Len(buffer["E"]) = BUFFER_SIZE => buffer' = buffer]_vars

\* A full buffer, more than BUFFER_SIZE bytes appended in all, and a last
\* call that appended a non-empty payload to the already full buffer.
C5_Witness ==
    /\ Len(buffer["E"]) = BUFFER_SIZE
    /\ Len(calls["E"]) = 3
    /\ Len(calls["E"][1]) + Len(calls["E"][2]) >= BUFFER_SIZE
    /\ Len(calls["E"][1]) < BUFFER_SIZE
    /\ calls["E"][3] # <<>>
    /\ op.name = "compress"

(***************************************************************************)
(* SpecSync: an encoder E and a decoder D.  Every packet of E.compress is  *)
(* passed to D.decompress in order, and D rebuilds its table at the points *)
(* of the packet sequence at which E rebuilt its own.                      *)
(***************************************************************************)

MaxSends == 2

MaxChan == 2

\* The payloads E sends: the empty one, and those of MaxLen bytes that begin
\* with 0x00.
SyncPayloads == {b \in Payloads : b = <<>> \/ b[1] = 0}

SyncSend ==
    /\ Len(calls["E"]) < MaxSends
    /\ Len(chan) < MaxChan
    /\ \E b \in SyncPayloads :
          /\ Compress("E", b)
          /\ chan' = Append(chan, Packet(op'.ret, b))
    /\ UNCHANGED pc

SyncRebuildE ==
    /\ Len(chan) < MaxChan
    /\ GenerateTable("E")
    /\ chan' = Append(chan, RebuildMark)
    /\ UNCHANGED pc

SyncReceive ==
    /\ chan # <<>>
    /\ Head(chan).kind = "packet"
    /\ Decompress("D", Head(chan).pkt)
    /\ chan' = Tail(chan)
    /\ UNCHANGED pc

SyncRebuildD ==
    /\ chan # <<>>
    /\ Head(chan).kind = "rebuild"
    /\ GenerateTable("D")
    /\ chan' = Tail(chan)
    /\ UNCHANGED pc

NextSync == SyncSend \/ SyncRebuildE \/ SyncReceive \/ SyncRebuildD

SpecSync == Init /\ [][NextSync]_vars

\* C6: every packet decodes to its original payload, in order, and whenever
\* D has consumed everything E produced, the two instances hold the same
\* buffer, table and inverse table.
C6_Synchronised ==
    /\ Len(calls["D"]) <= Len(calls["E"])
    /\ calls["D"] = SubSeq(calls["E"], 1, Len(calls["D"]))
    /\ op.name = "decompress" => op.err = ""
    /\ chan = <<>>
       => (/\ buffer["D"] = buffer["E"]
           /\ table["D"] = table["E"]
           /\ tableInverted["D"] = tableInverted["E"])

\* D has caught up after decoding, with a table rebuilt on both sides, a
\* packet in which a window was substituted.
C6_Witness ==
    /\ chan = <<>>
    /\ op.name = "decompress"
    /\ \E k \in DOMAIN op.codes : op.codes[k] # 0
    /\ op.ret # op.lit
    /\ Len(calls["D"]) = 2
    /\ buffer["D"] = buffer["E"]

====
